---- MODULE Spec2Model ----
(***************************************************************************)
(* A model of main.py: the configuration bootstrap, the IP poller (the     *)
(* main loop calling check_ip) and the message responder (telepot_handle,  *)
(* run by the MessageLoop thread).                                         *)
(*                                                                         *)
(* Python's None is the string "None".  Chat ids are opaque tokens that    *)
(* the program only compares for equality, written here as strings.        *)
(***************************************************************************)
EXTENDS Naturals, Sequences, FiniteSets

VARIABLES
    file,            \* configuration.json on disk
    file0,           \* configuration.json as the process found it
    pc,              \* position of the main thread
    exit_code,       \* argument of sys.exit, "None" while the process lives
    bot_token,       \* module globals read from the configuration
    admin_username,
    admin_chat_id,
    listener,        \* TRUE once MessageLoop(...).run_as_thread() has run
    last_ip,         \* global last_ip
    current_ip,      \* check_ip: local current_ip
    update_ip,       \* check_ip: local update_ip
    tick,            \* what the tick in progress (or the last one) did
    failed,          \* addresses whose notification failed and has not
                     \* succeeded since
    lastNotified,    \* address of the latest notification whose send succeeded
    everNotified,    \* addresses of all notifications whose send succeeded
    hpc,             \* position of the MessageLoop thread
    h,               \* what the handling in progress (or the last one) did
    everRaised,      \* TRUE once a handling ended in the except clause
    recording,       \* whether the run keeps the history of its first ticks
    fetchHist,       \* get_ip results of the first ticks, in order
    notifLog,        \* send attempts of the poller during those ticks
    steady           \* the address every fetch of the poller returns from now on, "None"
                     \* while the network is unconstrained

vars == <<file, file0, pc, exit_code, bot_token, admin_username, admin_chat_id,
          listener, last_ip, current_ip, update_ip, tick, failed,
          lastNotified, everNotified, hpc, h, everRaised,
          recording, fetchHist, notifLog, steady>>

configVars == <<bot_token, admin_username, admin_chat_id>>
pollerVars == <<last_ip, current_ip, update_ip, tick, failed, lastNotified,
                everNotified, fetchHist, notifLog>>
handlerVars == <<hpc, h, everRaised>>

None == "None"

(* Number of ticks whose history a recording run keeps. *)
MaxTicks == 5

----------------------------------------------------------------------------
(* Values *)

IPs == {"1.2.3.4", "5.6.7.8"}

AdminToken == "123:ABC"
AdminName == "alice"
AdminChat == "4242"
OtherName == "mallory"
OtherChat == "9999"

(* The handler's record before any message was delivered. *)
NoMsg ==
    [content_type |-> None, chat_type |-> None, username |-> None,
     chat_id |-> None, text_attr |-> FALSE]

NoFields == [bot_token |-> None, admin_username |-> None, admin_chat_id |-> None]

(* The dictionary literal of lines 164-168. *)
Template ==
    [bot_token |-> "bot token here",
     admin_username |-> "Telegram username here",
     admin_chat_id |-> "12345"]

(* JSON objects a configuration file may hold: each key is either present  *)
(* with a non-null value or reads as None (missing, or null).              *)
ConfigObjects ==
    [bot_token : {None, AdminToken},
     admin_username : {None, AdminName},
     admin_chat_id : {None, AdminChat}]

(* configuration.json before the process starts.  kind: "absent" (no such  *)
(* file), "noperm" (a file the process may not read), "malformed" (not     *)
(* JSON), "null" and "array" (JSON, but no object), "object".  writable:   *)
(* whether open(path, "w") succeeds.                                       *)
Files ==
    [kind : {"absent", "noperm", "malformed", "null", "array"},
     obj : {NoFields}, writable : BOOLEAN]
    \cup [kind : {"object"}, obj : ConfigObjects, writable : BOOLEAN]

(* Answers of https://api.ipify.org to one GET. *)
Responses ==
    {[raised |-> TRUE, status |-> 0, body |-> None]}
    \cup [raised : {FALSE}, status : {200}, body : IPs]
    \cup [raised : {FALSE}, status : {503}, body : {"1.2.3.4"}]

(* Messages the transport delivers.  username is None when msg["from"]     *)
(* has no key "username"; text_attr says whether the delivered object has  *)
(* an attribute text (a plain dict, which is what telepot delivers, has  *)
(* none).                                                                  *)
Messages ==
    [content_type : {"text", "photo"},
     chat_type : {"private", "group"},
     username : {AdminName, OtherName, None},
     chat_id : {AdminChat, OtherChat},
     text_attr : BOOLEAN]

----------------------------------------------------------------------------
(* Filesystem and configuration *)

file_exists(f) == f.kind \notin {"absent", "noperm"}

(* The value read_json returns: None when json.load raised or the document *)
(* is null. *)
read_json(f) ==
    CASE f.kind = "object" -> [type |-> "dict", obj |-> f.obj]
      [] f.kind = "array" -> [type |-> "list", obj |-> NoFields]
      [] OTHER -> [type |-> None, obj |-> NoFields]

(* The file after write_json(path, data): open(path, "w") creates or       *)
(* truncates the file, then json.dump(file, data) raises TypeError (its    *)
(* first argument, the file object, is not serialisable) before anything   *)
(* is written; the exception is caught.  When open itself fails the file   *)
(* is untouched.                                                           *)
write_json(f, data) ==
    IF f.writable
    THEN [kind |-> "malformed", obj |-> NoFields, writable |-> TRUE]
    ELSE f

(* read_field: the value under key, None when the lookup raises (missing   *)
(* key, or a configuration that is no dictionary) or the value is null.    *)
read_field(key, configuration) ==
    IF configuration.type = "dict" THEN configuration.obj[key] ELSE None

(* The state before line 139 runs. *)
Fresh ==
    /\ file \in Files
    /\ file0 = file
    /\ pc = "boot"
    /\ exit_code = None
    /\ bot_token = None
    /\ admin_username = None
    /\ admin_chat_id = None
    /\ listener = FALSE
    /\ last_ip = None
    /\ current_ip = None
    /\ update_ip = FALSE
    /\ tick = [stage |-> "none", old |-> None, pending |-> {}, fetches |-> 0,
               fetch |-> None, sent |-> <<>>]
    /\ failed = {}
    /\ lastNotified = None
    /\ everNotified = {}
    /\ hpc = "wait"
    /\ h = [stage |-> "none", msg |-> NoMsg, fetched |-> FALSE, fetches |-> 0,
            ip |-> None, sent |-> <<>>, warned |-> FALSE, raised |-> FALSE]
    /\ everRaised = FALSE
    /\ fetchHist = <<>>
    /\ notifLog = <<>>

Init == Fresh /\ recording = FALSE /\ steady = None

(* Lines 139-171: the configuration bootstrap. *)
Boot ==
    /\ pc = "boot"
    /\ IF file_exists(file)
       THEN LET configuration == read_json(file)
                bt == read_field("bot_token", configuration)
                au == read_field("admin_username", configuration)
                ac == read_field("admin_chat_id", configuration)
            IN  /\ file' = file
                /\ IF configuration.type /= None
                   THEN IF bt = None \/ au = None \/ ac = None
                        THEN /\ pc' = "exited"
                             /\ exit_code' = "1"
                             /\ UNCHANGED configVars
                        ELSE /\ pc' = "start"
                             /\ exit_code' = exit_code
                             /\ bot_token' = bt
                             /\ admin_username' = au
                             /\ admin_chat_id' = ac
                   ELSE /\ pc' = "exited"
                        /\ exit_code' = "1"
                        /\ UNCHANGED configVars
       ELSE /\ file' = write_json(file, Template)
            /\ pc' = "exited"
            /\ exit_code' = "0"
            /\ UNCHANGED configVars
    /\ UNCHANGED <<file0, listener, pollerVars, handlerVars, recording, steady>>

(* Lines 284-286: the bot is created and the listener thread started. *)
Start ==
    /\ pc = "start"
    /\ listener' = TRUE
    /\ pc' = "idle"
    /\ UNCHANGED <<file, file0, exit_code, configVars, pollerVars, handlerVars, recording, steady>>

----------------------------------------------------------------------------
(* Outbound sender and IP fetcher *)

(* get_ip: the decoded body of a 200 response, None otherwise. *)
get_ip(resp) ==
    IF ~resp.raised /\ resp.status = 200 THEN resp.body ELSE None

(* send_message returning True whatever bot.sendMessage did. *)
send_message_AlwaysTrue(chat_id, message, raises) == TRUE

(* send_message: one call of bot.sendMessage; True unless it raised. *)
send_message(chat_id, message, raises) == ~raises

(* The call of bot.sendMessage that send_message(chat_id, message) makes. *)
Attempt(chat_id, message, raises) ==
    [chat_id |-> chat_id, text |-> message, ok |-> ~raises]

(* send_message retrying once after bot.sendMessage raised. *)
Attempts_Retry(chat_id, message, raises) ==
    IF raises
    THEN <<Attempt(chat_id, message, TRUE), Attempt(chat_id, message, TRUE)>>
    ELSE <<Attempt(chat_id, message, FALSE)>>

(* Lines 245-252: the calls of bot.sendMessage that one call of            *)
(* send_message makes: one, with no retry.                                 *)
Attempts(chat_id, message, raises) == <<Attempt(chat_id, message, raises)>>

----------------------------------------------------------------------------
(* IP poller *)

(* A main loop that ends after its first tick. *)
AfterTick_NoLoop == "stopped"

(* Lines 293-299: check_ip has returned (no exception escapes it, and the  *)
(* except clause of line 296 would swallow one); the loop sleeps and then  *)
(* calls check_ip again.                                                   *)
AfterTick == "idle"

(* The backtick of the f-strings of lines 223 and 271; a TLA+ string       *)
(* cannot hold that character, an apostrophe stands for it.                *)
Backtick == "'"

(* Line 223. *)
NotifyText(ip) ==
    "New public IP address detected: " \o Backtick \o ip \o Backtick \o "."

(* check_ip without the None test of line 218. *)
NeedsNotify_NoNoneTest(cur, last) == cur /= last

(* check_ip without the comparison of line 221. *)
NeedsNotify_NoComparison(cur, last) == cur /= None

(* Lines 218-221: the branch of check_ip that notifies. *)
NeedsNotify(cur, last) == cur /= None /\ cur /= last

(* check_ip assigning last_ip whatever send_message returned. *)
UpdateLast_Unconditional(upd, cur, last) == cur

(* check_ip never assigning last_ip. *)
UpdateLast_Never(upd, cur, last) == last

(* Lines 231-232. *)
UpdateLast(upd, cur, last) == IF upd THEN cur ELSE last

(* Line 216: check_ip fetches the address. *)
TickFetch ==
    /\ pc = "idle"
    /\ recording => Len(fetchHist) < MaxTicks
    /\ \E resp \in Responses :
        /\ current_ip' = get_ip(resp)
        /\ steady /= None => get_ip(resp) = steady
        /\ tick' = [stage |-> "fetched", old |-> last_ip, pending |-> failed,
                    fetches |-> 1, fetch |-> get_ip(resp), sent |-> <<>>]
        /\ fetchHist' = IF recording THEN Append(fetchHist, get_ip(resp))
                        ELSE fetchHist
    /\ pc' = "fetched"
    /\ UNCHANGED <<file, file0, exit_code, configVars, listener, last_ip, update_ip,
                   failed, lastNotified, everNotified, notifLog, handlerVars,
                   recording, steady>>

(* Lines 218-229: the comparison and, on a change, the notification. *)
TickDecide ==
    /\ pc = "fetched"
    /\ IF NeedsNotify(current_ip, last_ip)
       THEN LET message == NotifyText(current_ip) IN
            \E raises \in BOOLEAN :
              /\ update_ip' = IF admin_chat_id /= None
                              THEN send_message(admin_chat_id, message, raises)
                              ELSE TRUE
              /\ tick' = [tick EXCEPT !.stage = "decided",
                            !.sent = IF admin_chat_id /= None
                                     THEN Attempts(admin_chat_id, message, raises)
                                     ELSE <<>>]
              /\ failed' = IF raises THEN failed \cup {current_ip}
                           ELSE failed \ {current_ip}
              /\ lastNotified' = IF raises THEN lastNotified ELSE current_ip
              /\ everNotified' = IF raises THEN everNotified
                                 ELSE everNotified \cup {current_ip}
              /\ notifLog' = IF recording
                             THEN notifLog
                                  \o Attempts(admin_chat_id, message, raises)
                             ELSE notifLog
              /\ pc' = "sent"
              /\ current_ip' = current_ip
       ELSE /\ pc' = AfterTick
            /\ tick' = [tick EXCEPT !.stage = "done"]
            /\ current_ip' = None
            /\ UNCHANGED <<update_ip, failed, lastNotified, everNotified, notifLog>>
    /\ UNCHANGED <<file, file0, exit_code, configVars, listener, last_ip, fetchHist,
                   handlerVars, recording, steady>>

(* Lines 231-232, then check_ip returns and the loop sleeps (line 299). *)
TickUpdate ==
    /\ pc = "sent"
    /\ last_ip' = UpdateLast(update_ip, current_ip, last_ip)
    /\ tick' = [tick EXCEPT !.stage = "done"]
    /\ current_ip' = None
    /\ update_ip' = FALSE
    /\ pc' = AfterTick
    /\ UNCHANGED <<file, file0, exit_code, configVars, listener, failed,
                   lastNotified, everNotified, fetchHist, notifLog, handlerVars,
                   recording, steady>>

----------------------------------------------------------------------------
(* Message responder *)

UnauthorizedText == "You are not authorized to interact with this bot."
FailureText == "Failed to obtain IP address."

(* Line 271. *)
ReplyText(ip) == "IP: " \o Backtick \o ip \o Backtick \o "."

(* Line 263. *)
Authorized(m) ==
    /\ m.content_type = "text"
    /\ m.chat_type = "private"
    /\ m.username = admin_username
    /\ m.chat_id = admin_chat_id

(* Lines 259-261: msg["from"]["username"] raises KeyError without the key, *)
(* and the f-string of line 261 evaluates msg.text, which raises           *)
(* AttributeError on an object without that attribute.                     *)
GlanceRaises(m) == m.username = None \/ ~m.text_attr

(* A handler without the try statement of lines 257 and 278: an exception *)
(* ends the thread that delivers the messages.                             *)
AfterHandling_Uncaught(raised) == IF raised THEN "dead" ELSE "wait"

(* Lines 257 and 278-281: whether or not the body raised, telepot_handle   *)
(* returns normally and the thread waits for the next message.             *)
AfterHandling(raised) == "wait"

(* A handler that stores the address it fetched in the global. *)
HandlerLastIp_Stores(last, ip) == IF ip /= None THEN ip ELSE last

(* Lines 256-281: telepot_handle has no global statement for last_ip and   *)
(* keeps the fetched address in its local ip: last_ip after the handler    *)
(* fetched ip.                                                             *)
HandlerLastIp(last, ip) == last

handlerFrame ==
    <<file, file0, pc, exit_code, configVars, listener, current_ip, update_ip,
      tick, failed, lastNotified, everNotified, fetchHist, notifLog, recording,
      steady>>

(* Lines 257-265 and 273-281: a message is delivered; the handler either   *)
(* raises while reading it, rejects it, or fetches the address for it.     *)
HandleMessage ==
    /\ listener
    /\ hpc = "wait"
    /\ \E m \in Messages :
        IF GlanceRaises(m)
        THEN /\ h' = [stage |-> "done", msg |-> m, fetched |-> FALSE,
                      fetches |-> 0, ip |-> None, sent |-> <<>>,
                      warned |-> FALSE, raised |-> TRUE]
             /\ hpc' = AfterHandling(TRUE)
             /\ everRaised' = TRUE
             /\ last_ip' = last_ip
        ELSE IF Authorized(m)
        THEN \E resp \in Responses :
             /\ h' = [stage |-> "fetched", msg |-> m, fetched |-> TRUE,
                      fetches |-> 1, ip |-> get_ip(resp), sent |-> <<>>,
                      warned |-> FALSE, raised |-> FALSE]
             /\ hpc' = "fetched"
             /\ everRaised' = everRaised
             /\ last_ip' = HandlerLastIp(last_ip, get_ip(resp))
        ELSE \E raises \in BOOLEAN :
             /\ h' = [stage |-> "done", msg |-> m, fetched |-> FALSE,
                      fetches |-> 0, ip |-> None,
                      sent |-> Attempts(m.chat_id, UnauthorizedText, raises),
                      warned |-> TRUE, raised |-> FALSE]
             /\ hpc' = AfterHandling(FALSE)
             /\ everRaised' = everRaised
             /\ last_ip' = last_ip
    /\ UNCHANGED handlerFrame

(* Lines 267-271 and 278-281: the reply to an authorized message.  With    *)
(* ip None, send_message is called with one argument: the call raises      *)
(* TypeError before bot.sendMessage is reached, and the handler's except   *)
(* clause swallows it.                                                     *)
HandleReply ==
    /\ hpc = "fetched"
    /\ IF h.ip = None
       THEN /\ h' = [h EXCEPT !.stage = "done", !.raised = TRUE]
            /\ hpc' = AfterHandling(TRUE)
            /\ everRaised' = TRUE
       ELSE /\ \E raises \in BOOLEAN :
                h' = [h EXCEPT !.stage = "done",
                        !.sent = Attempts(h.msg.chat_id, ReplyText(h.ip), raises)]
            /\ hpc' = AfterHandling(FALSE)
            /\ everRaised' = everRaised
    /\ last_ip' = last_ip
    /\ UNCHANGED handlerFrame

----------------------------------------------------------------------------
Next ==
    \/ Boot
    \/ Start
    \/ TickFetch
    \/ TickDecide
    \/ TickUpdate
    \/ HandleMessage
    \/ HandleReply

Spec == Init /\ [][Next]_vars

(* A run from a fresh process with a valid configuration that keeps the    *)
(* history of its first MaxTicks ticks; the listener receives nothing.     *)
InitTicks ==
    /\ Fresh
    /\ recording = TRUE
    /\ steady = None
    /\ file.kind = "object"
    /\ \A k \in DOMAIN file.obj : file.obj[k] /= None

NextTicks ==
    \/ Boot
    \/ Start
    \/ TickFetch
    \/ TickDecide
    \/ TickUpdate

SpecTicks == InitTicks /\ [][NextTicks]_vars

(* The whole program under the scheduling of the main thread: the loop of *)
(* lines 293-299 goes on (the sleep ends, the fetch times out after 10 s,  *)
(* the send returns or raises).                                            *)
Fairness ==
    /\ WF_vars(TickFetch)
    /\ WF_vars(TickDecide)
    /\ WF_vars(TickUpdate)

SpecLive == Init /\ [][Next]_vars /\ Fairness

(* From a tick boundary on, api.ipify.org answers every fetch of the       *)
(* poller with the same address. *)
Settle ==
    /\ pc = "idle"
    /\ steady = None
    /\ \E X \in IPs : steady' = X
    /\ UNCHANGED <<file, file0, pc, exit_code, configVars, listener, pollerVars,
                   handlerVars, recording>>

(* A notification whose send succeeds. *)
SendSucceeds == TickDecide /\ pc' = "sent" /\ update_ip'

NextSettle ==
    \/ Boot
    \/ Start
    \/ TickFetch
    \/ TickDecide
    \/ TickUpdate
    \/ HandleMessage
    \/ HandleReply
    \/ Settle

(* The program in a network that settles, with a transport whose sends do  *)
(* not fail forever. *)
SpecSettle ==
    Init /\ [][NextSettle]_vars /\ Fairness /\ SF_vars(SendSucceeds)

----------------------------------------------------------------------------
(* Properties *)

TickDecided == tick.stage \in {"decided", "done"}
HandlingDone == h.stage = "done"

(* The send attempts of a sequence that went to chat_id with this text. *)
SentTo(sent, chat_id, text) ==
    /\ Len(sent) = 1
    /\ sent[1].chat_id = chat_id
    /\ sent[1].text = text

SentIpReply ==
    \E i \in DOMAIN h.sent : \E ip \in IPs : h.sent[i].text = ReplyText(ip)

(* C1: a handled message causes an IP fetch, and an IP-bearing reply when  *)
(* the fetch succeeds, iff it is text, private, from admin_username and in *)
(* the chat admin_chat_id; any other message causes no fetch and no IP     *)
(* reply.                                                                  *)
C1_FetchIffAuthorized ==
    HandlingDone =>
        /\ h.fetched <=> Authorized(h.msg)
        /\ SentIpReply <=> (Authorized(h.msg) /\ h.ip /= None)

(* C2: a tick whose notification send failed leaves last_ip at its old     *)
(* value, and every later tick that fetches an address whose notification  *)
(* failed and has not succeeded since attempts the notification again.     *)
C2_FailedSendRetried ==
    /\ (tick.stage = "done" /\ tick.sent /= <<>> /\ ~tick.sent[1].ok) =>
            /\ last_ip = tick.old
            /\ tick.fetch \in failed
    /\ (TickDecided /\ tick.fetch \in tick.pending) =>
            SentTo(tick.sent, admin_chat_id, NotifyText(tick.fetch))

C2_Witness ==
    /\ tick.stage = "done"
    /\ tick.fetch \in tick.pending
    /\ tick.old = None
    /\ SentTo(tick.sent, admin_chat_id, NotifyText(tick.fetch))
    /\ tick.sent[1].ok
    /\ last_ip = tick.fetch

(* The five ticks of the scenario are over, they fetched A, A, B, B, A and *)
(* every send succeeded. *)
Scenario(A, B) ==
    /\ pc = "idle"
    /\ fetchHist = <<A, A, B, B, A>>
    /\ \A i \in DOMAIN notifLog : notifLog[i].ok

(* C3 as stated: from a fresh process, fetches A, A, B, B, A with all      *)
(* sends succeeding produce exactly two notifications, for B and for A.    *)
C3_TwoNotifications ==
    \A A \in IPs : \A B \in IPs \ {A} :
        Scenario(A, B) =>
            /\ Len(notifLog) = 2
            /\ notifLog[1].text = NotifyText(B)
            /\ notifLog[2].text = NotifyText(A)

(* C3 amended: from a fresh process, fetches A, A, B, B, A with all sends  *)
(* succeeding produce exactly three notifications, all to admin_chat_id:   *)
(* for A (last_ip is unset at the first tick), for B and for A again.      *)
C3_ThreeNotifications ==
    \A A \in IPs : \A B \in IPs \ {A} :
        Scenario(A, B) =>
            /\ Len(notifLog) = 3
            /\ notifLog[1].text = NotifyText(A)
            /\ notifLog[2].text = NotifyText(B)
            /\ notifLog[3].text = NotifyText(A)
            /\ \A i \in DOMAIN notifLog : notifLog[i].chat_id = admin_chat_id

C3_Witness ==
    /\ Scenario("1.2.3.4", "5.6.7.8")
    /\ Len(notifLog) = 3
    /\ last_ip = "1.2.3.4"

(* C4: a tick whose fetch failed attempts no send and leaves last_ip as it *)
(* was.                                                                    *)
C4_FetchFailureNoEffect ==
    (TickDecided /\ tick.fetch = None) =>
        /\ tick.sent = <<>>
        /\ last_ip = tick.old

C4_Witness ==
    /\ tick.stage = "done"
    /\ tick.fetch = None
    /\ tick.old \in IPs
    /\ last_ip = tick.old

(* C5: a tick attempts a notification iff its fetch succeeded with a value *)
(* other than last_ip; the attempt goes to admin_chat_id with the text     *)
(* embedding the fetched value; a tick that fetched last_ip sends nothing  *)
(* and leaves last_ip unchanged.                                           *)
C5_NotifyIffChanged ==
    TickDecided =>
        /\ tick.sent /= <<>> <=> (tick.fetch /= None /\ tick.fetch /= tick.old)
        /\ tick.sent /= <<>> =>
               SentTo(tick.sent, admin_chat_id, NotifyText(tick.fetch))
        /\ tick.fetch = tick.old => (tick.sent = <<>> /\ last_ip = tick.old)

C5_Witness ==
    /\ tick.stage = "done"
    /\ tick.old \in IPs
    /\ tick.fetch \in IPs \ {tick.old}
    /\ SentTo(tick.sent, admin_chat_id, NotifyText(tick.fetch))
    /\ last_ip = tick.fetch

(* C6: a handled message that is text, private, from admin_username and in *)
(* the chat admin_chat_id has caused a fetch and, when the fetch returned  *)
(* V, a reply embedding V to its chat id.                                  *)
C6_AuthorizedGetsReply ==
    (HandlingDone /\ Authorized(h.msg)) =>
        /\ h.fetched
        /\ h.ip /= None => SentTo(h.sent, h.msg.chat_id, ReplyText(h.ip))

(* C7: a handled message from another username, text, private and in the   *)
(* chat admin_chat_id, has caused no fetch, a warning in the log and the   *)
(* fixed notice to its chat id.                                            *)
C7_UnauthorizedGetsNotice ==
    ( /\ HandlingDone
      /\ h.msg.username /= admin_username
      /\ h.msg.content_type = "text"
      /\ h.msg.chat_type = "private"
      /\ h.msg.chat_id = admin_chat_id ) =>
        /\ ~h.fetched
        /\ h.warned
        /\ SentTo(h.sent, h.msg.chat_id, UnauthorizedText)

(* C8: when the fetch made for an authorized message failed, the failure   *)
(* notice was sent to the message's chat id.                               *)
C8_FailureNoticeSent ==
    (HandlingDone /\ Authorized(h.msg) /\ h.fetched /\ h.ip = None) =>
        SentTo(h.sent, h.msg.chat_id, FailureText)

(* C9: a process that found no configuration file has exited with code 0   *)
(* without starting the listener or the poller, and left a file holding    *)
(* the three placeholder fields.                                           *)
C9_TemplateWritten ==
    (file0.kind = "absent" /\ pc /= "boot") =>
        /\ pc = "exited"
        /\ exit_code = "0"
        /\ ~listener
        /\ tick.stage = "none"
        /\ file.kind = "object"
        /\ file.obj = Template

ConfigComplete ==
    bot_token /= None /\ admin_username /= None /\ admin_chat_id /= None

(* A configuration file that is there and cannot be read, or lacks one of  *)
(* the three fields. *)
Unusable(f) ==
    \/ f.kind \in {"noperm", "malformed", "null", "array"}
    \/ f.kind = "object" /\ \E k \in DOMAIN f.obj : f.obj[k] = None

(* C10: a process that found a configuration file it cannot read, or one   *)
(* lacking a field, has exited with code 1 without touching the file and   *)
(* without starting the listener or the poller; wherever the listener or   *)
(* the poller runs, the three configuration fields are set.                *)
C10_InvalidConfigRefused ==
    /\ (Unusable(file0) /\ pc /= "boot") =>
            /\ pc = "exited"
            /\ exit_code = "1"
            /\ file = file0
            /\ ~listener
            /\ tick.stage = "none"
    /\ (listener \/ pc \in {"idle", "fetched", "sent"}) => ConfigComplete

(* A step of the handler that ends in the except clause of line 278. *)
RaisingStep ==
    /\ hpc \in {"wait", "fetched"}
    /\ h'.stage = "done"
    /\ h'.raised
    /\ <<hpc, h, everRaised>>' /= <<hpc, h, everRaised>>

(* C11: an exception raised while a message is handled ends inside the     *)
(* handler: the step leaves the main thread, the poller's variables and    *)
(* last_ip as they were, the listener stays up, and the thread goes back   *)
(* to waiting, where the next delivered message is handled.                *)
C11_HandlerExceptionCaught ==
    /\ [][RaisingStep =>
            /\ hpc' = "wait"
            /\ listener'
            /\ UNCHANGED <<pc, pollerVars>>]_vars
    /\ [](everRaised => (listener /\ hpc \in {"wait", "fetched"}))

C11_Witness ==
    /\ everRaised
    /\ h.stage = "done"
    /\ ~h.raised
    /\ h.fetched
    /\ Len(h.sent) = 1
    /\ tick.stage = "done"

(* C12: once started, the main thread is never anywhere but in its loop;   *)
(* every tick, whatever it fetched and whatever its send did, comes back   *)
(* to idle, and from idle the next tick starts.                            *)
C12_PollerKeepsTicking ==
    /\ [](listener => pc \in {"idle", "fetched", "sent"})
    /\ (tick.stage \in {"fetched", "decided"}) ~> (pc = "idle" /\ tick.stage = "done")
    /\ (listener /\ pc = "idle") ~> (pc = "fetched")

C12_Witness ==
    /\ pc = "fetched"
    /\ tick.stage = "fetched"
    /\ tick.pending /= {}
    /\ tick.fetch = None

NotifyTexts == {NotifyText(ip) : ip \in IPs}
ReplyTexts == {ReplyText(ip) : ip \in IPs}

(* C13: the text of every attempt on bot.sendMessage is the notification   *)
(* of an address, the reply with an address, the unauthorized notice or    *)
(* the failure notice.                                                     *)
C13_OnlyFourKinds ==
    /\ \A i \in DOMAIN tick.sent :
         tick.sent[i].text \in NotifyTexts
    /\ \A i \in DOMAIN h.sent :
         h.sent[i].text \in ReplyTexts \cup {UnauthorizedText, FailureText}

C13_Witness ==
    /\ everRaised
    /\ Len(tick.sent) = 1
    /\ ~tick.sent[1].ok
    /\ Len(h.sent) = 1
    /\ h.sent[1].text \in ReplyTexts

(* C14 as stated: in every state last_ip is unset or the address of the    *)
(* latest notification whose send succeeded.                               *)
C14_LastIpIsLatestNotified ==
    last_ip = None \/ last_ip = lastNotified

(* C14 amended: in every state last_ip is unset or an address whose        *)
(* notification was sent successfully, and outside the window between a    *)
(* send (line 229) and the assignment of line 232 it is unset or the       *)
(* address of the latest such notification.                                *)
C14_LastIpWasNotified ==
    /\ last_ip = None \/ last_ip \in everNotified
    /\ pc /= "sent" => (last_ip = None \/ last_ip = lastNotified)

C14_Witness ==
    /\ pc = "idle"
    /\ last_ip \in IPs
    /\ last_ip = lastNotified
    /\ Cardinality(everNotified) = 2
    /\ failed /= {}

(* A step of the handler. *)
HandlerStep == <<hpc, h, everRaised>>' /= <<hpc, h, everRaised>>

(* C15: no step of the handler, whatever the message and whatever its      *)
(* fetch returned, changes last_ip or any other variable of the poller,    *)
(* wherever the poller's tick stands.                                      *)
C15_HandlerLeavesPollerAlone ==
    [][HandlerStep => UNCHANGED <<pc, pollerVars>>]_vars

C15_Witness ==
    /\ pc = "fetched"
    /\ current_ip \in IPs
    /\ h.stage = "done"
    /\ h.ip \in IPs \ {current_ip}
    /\ Len(h.sent) = 1
    /\ last_ip = None

(* C16: once every fetch of the poller returns the address X, with sends   *)
(* that do not fail forever, last_ip becomes X after a notification of X   *)
(* was sent successfully; and from a state where last_ip is X no           *)
(* notification is attempted and last_ip stays X.                          *)
C16_SettlesOnSteadyAddress ==
    /\ (steady /= None) ~> (last_ip = steady /\ lastNotified = steady)
    /\ [][(steady /= None /\ last_ip = steady) =>
            /\ last_ip' = last_ip
            /\ pc' /= "sent"
            /\ lastNotified' = lastNotified]_vars

C16_Witness ==
    /\ steady /= None
    /\ tick.stage = "done"
    /\ tick.old = steady
    /\ tick.fetch = steady
    /\ tick.sent = <<>>
    /\ last_ip = steady

(* C17: a call of send_message makes one attempt on bot.sendMessage and    *)
(* returns True iff the attempt did not raise; the caller goes on: the     *)
(* poller to line 231, the handler to its end without entering its except  *)
(* clause.                                                                 *)
C17_SendReturnsOutcome ==
    /\ pc = "sent" => (Len(tick.sent) = 1 /\ (update_ip <=> tick.sent[1].ok))
    /\ h.sent /= <<>> => (Len(h.sent) = 1 /\ ~h.raised /\ hpc = "wait")

C17_Witness ==
    /\ pc = "sent"
    /\ ~update_ip
    /\ ~tick.sent[1].ok
    /\ Len(h.sent) = 1
    /\ ~h.sent[1].ok

(* C18: a tick makes exactly one fetch and at most one send attempt, a     *)
(* handling at most one fetch and at most one send attempt, and neither    *)
(* happens before the configuration was read with its three fields set.    *)
C18_OneFetchOneSend ==
    /\ tick.stage /= "none" => tick.fetches = 1
    /\ Len(tick.sent) <= 1
    /\ h.fetches <= 1
    /\ Len(h.sent) <= 1
    /\ (tick.stage /= "none" \/ h.stage /= "none") =>
            /\ ConfigComplete
            /\ listener
            /\ ~Unusable(file0) /\ file0.kind = "object"
    /\ pc \in {"boot", "start", "exited"} =>
            (tick.stage = "none" /\ h.stage = "none")

C18_Witness ==
    /\ tick.stage = "done"
    /\ tick.fetches = 1
    /\ Len(tick.sent) = 1
    /\ h.stage = "done"
    /\ h.fetches = 1
    /\ Len(h.sent) = 1

====
